---- MODULE Spec2Model ----
(***************************************************************************)
(* tsag: synthetic anomalies for time series (src/tsag/tsag.py).           *)
(*                                                                         *)
(* A pandas Series is a sequence of values; position i of the Series is    *)
(* element i+1 of the sequence.  A value is an exact rational n/d (d > 0,  *)
(* lowest terms) or NaN (d = 0), standing for the float the code computes. *)
(* Series objects live in a heap and are named by references, so that a    *)
(* copy and an in-place change are different things.                       *)
(***************************************************************************)
EXTENDS Integers, Sequences, FiniteSets, TLC

VARIABLES heap, T, H, inst, ret, err, rng, call, nins

vars == <<heap, T, H, inst, ret, err, rng, call, nins>>

----------------------------------------------------------------------------
(* Bounds of the model *)

MaxLen == 3
MaxHost == 2
MaxCount == 2
MaxStages == 2
MaxInserts == 2

----------------------------------------------------------------------------
(* Values: floats as exact rationals, plus NaN *)

Abs(x) == IF x < 0 THEN -x ELSE x

RECURSIVE Gcd(_, _)
Gcd(a, b) == IF b = 0 THEN a ELSE Gcd(b, a % b)

NaN == [n |-> 0, d |-> 0]

IsNaN(a) == a.d = 0

Rat(n, d) ==
    LET g == Gcd(Abs(n), Abs(d))
        s == IF d < 0 THEN -1 ELSE 1
    IN  [n |-> (s * n) \div g, d |-> (s * d) \div g]

R(k) == [n |-> k, d |-> 1]

Add(a, b) ==
    IF IsNaN(a) \/ IsNaN(b) THEN NaN
    ELSE Rat(a.n * b.d + b.n * a.d, a.d * b.d)

Sub(a, b) ==
    IF IsNaN(a) \/ IsNaN(b) THEN NaN
    ELSE Rat(a.n * b.d - b.n * a.d, a.d * b.d)

Mul(a, b) ==
    IF IsNaN(a) \/ IsNaN(b) THEN NaN
    ELSE Rat(a.n * b.n, a.d * b.d)

\* a <= b on numbers (neither is NaN)
Leq(a, b) == a.n * b.d <= b.n * a.d

\* round(1/ratio) in place of int(1/ratio)
IntInv_rounded(ratio) == (2 * ratio.d + ratio.n) \div (2 * ratio.n)

\* int(1/ratio) for ratio > 0: truncation of the quotient
IntInv(ratio) == ratio.d \div ratio.n

----------------------------------------------------------------------------
(* pandas operations used by the code.  A Series is a record of its index  *)
(* labels and its values, two sequences of the same length.                *)

\* the default index of n positions: labels 0..n-1
RangeIndex(n) == [k \in 1..n |-> k - 1]

\* pd.Series(list)
Series(vals) == [index |-> RangeIndex(Len(vals)), values |-> vals]

Size(s) == Len(s.values)

\* Series.copy(): a new Series with the same labels and values
Copy(s) ==
    [index |-> [k \in 1..Size(s) |-> s.index[k]],
     values |-> [k \in 1..Size(s) |-> s.values[k]]]

\* Series.max() / Series.min(): NaN on an empty Series
SeriesMax(s) ==
    IF Size(s) = 0 THEN NaN
    ELSE s.values[CHOOSE i \in 1..Size(s) :
                    \A j \in 1..Size(s) : Leq(s.values[j], s.values[i])]

SeriesMin(s) ==
    IF Size(s) = 0 THEN NaN
    ELSE s.values[CHOOSE i \in 1..Size(s) :
                    \A j \in 1..Size(s) : Leq(s.values[i], s.values[j])]

\* Series + scalar, Series * scalar, Series + array of the same length:
\* elementwise, the labels kept
AddScalar(s, x) ==
    [index |-> s.index, values |-> [k \in 1..Size(s) |-> Add(s.values[k], x)]]

MulScalar(s, x) ==
    [index |-> s.index, values |-> [k \in 1..Size(s) |-> Mul(s.values[k], x)]]

AddArray(s, arr) ==
    [index |-> s.index, values |-> [k \in 1..Size(s) |-> Add(s.values[k], arr[k])]]

\* Python slice bound: a negative bound counts from the end, and the bound
\* is clamped into 0..len
SliceBound(len, i) ==
    IF i < 0 THEN (IF len + i < 0 THEN 0 ELSE len + i)
    ELSE IF i > len THEN len ELSE i

\* s.iloc[:i] and s.iloc[i:]
IlocTo(s, i) ==
    LET b == SliceBound(Size(s), i)
    IN  [index |-> SubSeq(s.index, 1, b), values |-> SubSeq(s.values, 1, b)]

IlocFrom(s, i) ==
    LET b == SliceBound(Size(s), i)
    IN  [index |-> SubSeq(s.index, b + 1, Size(s)),
         values |-> SubSeq(s.values, b + 1, Size(s))]

\* s.iloc[::step], step >= 1
IlocStep(s, step) ==
    LET m == (Size(s) + step - 1) \div step
    IN  [index |-> [k \in 1..m |-> s.index[(k - 1) * step + 1]],
         values |-> [k \in 1..m |-> s.values[(k - 1) * step + 1]]]

\* s.reset_index(drop=True)
ResetIndex(s) == [index |-> RangeIndex(Size(s)), values |-> s.values]

\* pd.concat(parts, ignore_index=True), parts a sequence of Series
RECURSIVE ConcatValues(_)
ConcatValues(parts) ==
    IF parts = << >> THEN << >>
    ELSE Head(parts).values \o ConcatValues(Tail(parts))

Concat(parts) == Series(ConcatValues(parts))

----------------------------------------------------------------------------
(* np.random: one process-wide generator.  Its state is a position in a    *)
(* fixed cycle of standard-normal samples; normal(mu, sigma, n) takes the   *)
(* next n samples z and returns mu + sigma * z for each.                    *)

Zs == <<0, 1, -1>>

RngNext(r) == (r % Len(Zs)) + 1

RECURSIVE RngSkip(_, _)
RngSkip(r, n) == IF n <= 0 THEN r ELSE RngSkip(RngNext(r), n - 1)

RECURSIVE Normal(_, _, _, _)
Normal(mu, sigma, n, r) ==
    IF n <= 0 THEN << >>
    ELSE <<R(mu + sigma * Zs[r])>> \o Normal(mu, sigma, n - 1, RngNext(r))

----------------------------------------------------------------------------
(* The generators.  self is the instance as BaseAnomaly.__init__ has set it *)
(* up when it calls _generate: template and anomaly are both copies of the  *)
(* constructor's template, transformations are the positional arguments,    *)
(* kw the keyword arguments (also instance attributes).  A generator        *)
(* returns the Series it made (val), the exception it raised (err, "" for   *)
(* none) and the state it leaves the random generator in.                   *)

Returns(s, r) == [err |-> "", val |-> s, rng |-> r]

Raises(e, r) == [err |-> e, val |-> Series(<< >>), rng |-> r]

NoisyAnomaly_generate(self, r) ==
    LET anomaly == Copy(self.template)
        noise == Normal(self.kw.mu, self.kw.sigma, Size(anomaly), r)
    IN  Returns(AddArray(anomaly, noise), RngSkip(r, Size(anomaly)))

RangeShiftAnomaly_generate(self, r) ==
    LET anomaly == Copy(self.template)
    IN  Returns(MulScalar(anomaly, self.kw.ratio), r)

\* the shift taken from the maximum instead of the range
AmplitudeShiftAnomaly_generate_max(self, r) ==
    LET max == SeriesMax(self.template)
        shift == Mul(max, self.kw.ratio)
        anomaly == Copy(self.template)
    IN  Returns(AddScalar(anomaly, shift), r)

AmplitudeShiftAnomaly_generate(self, r) ==
    LET max == SeriesMax(self.template)
        min == SeriesMin(self.template)
        shift == Mul(Sub(max, min), self.kw.ratio)
        anomaly == Copy(self.template)
    IN  Returns(AddScalar(anomaly, shift), r)

\* the body of "for i in range(self.count)", from iteration i on
RECURSIVE PointLoop(_, _, _, _, _)
PointLoop(self, point, anomaly, i, r) ==
    IF i >= self.kw.count THEN Returns(anomaly, r)
    ELSE LET noise == Normal(self.kw.mu, self.kw.sigma, 2, r)
             point_anomaly == AddArray(point, noise)
         IN  PointLoop(self, point, Concat(<<anomaly, point_anomaly>>), i + 1,
                       RngSkip(r, 2))

\* the lower boundary moved up instead of down
PointAnomaly_generate_lower_up(self, r) ==
    LET max == SeriesMax(self.template)
        min == SeriesMin(self.template)
        mid == Mul(Sub(max, min), self.kw.ratio)
        upper == Add(max, mid)
        lower == Add(min, mid)
        point == Series(<<upper, lower>>)
    IN  PointLoop(self, point, Series(<< >>), 0, r)

PointAnomaly_generate(self, r) ==
    LET max == SeriesMax(self.template)
        min == SeriesMin(self.template)
        mid == Mul(Sub(max, min), self.kw.ratio)
        upper == Add(max, mid)
        lower == Sub(min, mid)
        point == Series(<<upper, lower>>)
    IN  PointLoop(self, point, Series(<< >>), 0, r)

\* 0 < self.ratio <= 1
RatioAccepted(ratio) == ratio.n > 0 /\ ratio.n <= ratio.d

FrequencyShiftAnomaly_generate(self, r) ==
    IF RatioAccepted(self.kw.ratio)
    THEN Returns(ResetIndex(IlocStep(self.template, IntInv(self.kw.ratio))), r)
    ELSE Raises("NotImplementedError", r)

RECURSIVE BaseAnomaly_init(_, _, _, _, _)

\* every stage constructed with the instance's template instead of the
\* output of the stage before it
RECURSIVE CompoundLoop_same_template(_, _, _, _)
CompoundLoop_same_template(self, anomaly, k, r) ==
    IF k > Len(self.transformations) THEN Returns(anomaly, r)
    ELSE LET stage == self.transformations[k]
             made == BaseAnomaly_init(stage.Anomaly, self.template, << >>,
                                      stage.kwargs, r)
         IN  IF made.err # "" THEN Raises(made.err, made.rng)
             ELSE CompoundLoop_same_template(self, made.anomaly, k + 1, made.rng)

\* a failing stage ends the loop, which returns what the stages before made
RECURSIVE CompoundLoop_swallow(_, _, _, _)
CompoundLoop_swallow(self, anomaly, k, r) ==
    IF k > Len(self.transformations) THEN Returns(anomaly, r)
    ELSE LET stage == self.transformations[k]
             made == BaseAnomaly_init(stage.Anomaly, anomaly, << >>, stage.kwargs, r)
         IN  IF made.err # "" THEN Returns(anomaly, made.rng)
             ELSE CompoundLoop_swallow(self, made.anomaly, k + 1, made.rng)

\* the body of "for Anomaly, kwargs in self.transformations", from stage k on
RECURSIVE CompoundLoop(_, _, _, _)
CompoundLoop(self, anomaly, k, r) ==
    IF k > Len(self.transformations) THEN Returns(anomaly, r)
    ELSE LET stage == self.transformations[k]
             made == BaseAnomaly_init(stage.Anomaly, anomaly, << >>, stage.kwargs, r)
         IN  IF made.err # "" THEN Raises(made.err, made.rng)
             ELSE CompoundLoop(self, made.anomaly, k + 1, made.rng)

\* an empty stage list refused
CompoundAnomaly_generate_nonempty(self, r) ==
    IF self.transformations = << >> THEN Raises("ValueError", r)
    ELSE CompoundLoop(self, Copy(self.anomaly), 1, r)

CompoundAnomaly_generate(self, r) ==
    CompoundLoop(self, Copy(self.anomaly), 1, r)

Generate(kind, self, r) ==
    CASE kind = "NoisyAnomaly" -> NoisyAnomaly_generate(self, r)
      [] kind = "RangeShiftAnomaly" -> RangeShiftAnomaly_generate(self, r)
      [] kind = "AmplitudeShiftAnomaly" -> AmplitudeShiftAnomaly_generate(self, r)
      [] kind = "PointAnomaly" -> PointAnomaly_generate(self, r)
      [] kind = "FrequencyShiftAnomaly" -> FrequencyShiftAnomaly_generate(self, r)
      [] kind = "CompoundAnomaly" -> CompoundAnomaly_generate(self, r)

\* Anomaly(template, *args, **kwargs): the instance made, or the exception
\* that left the constructor
BaseAnomaly_init(kind, template, args, kwargs, r) ==
    LET self == [template |-> Copy(template),
                 anomaly |-> Copy(template),
                 transformations |-> args,
                 parameters |-> IF args # << >> THEN args ELSE kwargs,
                 kw |-> kwargs]
        gen == Generate(kind, self, r)
    IN  [err |-> gen.err,
         kind |-> kind,
         template |-> self.template,
         anomaly |-> gen.val,
         parameters |-> self.parameters,
         rng |-> gen.rng]

\* "if index:" in place of "if index is not None:"
insert_truthy(self, timeseries, index) ==
    LET anomaly == self.anomaly
    IN  IF index # << >> /\ index[1] # 0
        THEN Concat(<<IlocTo(timeseries, index[1]), anomaly,
                      IlocFrom(timeseries, index[1])>>)
        ELSE Concat(<<timeseries, anomaly>>)

\* BaseAnomaly.insert: the Series it returns; index=None is << >>, index=i
\* is <<i>>
insert(self, timeseries, index) ==
    LET anomaly == self.anomaly
    IN  IF index # << >>
        THEN Concat(<<IlocTo(timeseries, index[1]), anomaly,
                      IlocFrom(timeseries, index[1])>>)
        ELSE Concat(<<timeseries, anomaly>>)

----------------------------------------------------------------------------
(* Inputs *)

Ratios == {Rat(-1, 1), Rat(0, 1), Rat(1, 2), Rat(2, 3), Rat(1, 1), Rat(3, 2)}

Mus == {0, 1}

Sigmas == {0, 1}

Counts == -1..MaxCount

TemplateValues == {R(1), R(3)}

Templates == {Series(v) : v \in UNION {[1..n -> TemplateValues] : n \in 0..MaxLen}}

Hosts == {Series([i \in 1..n |-> R(10 + i)]) : n \in 0..MaxHost}

Indexes == {<< >>} \cup {<<i>> : i \in -1..(MaxHost + 1)}

\* the keyword arguments each constructor passes to BaseAnomaly.__init__
NoisyKwargs == [mu : Mus, sigma : Sigmas]

RatioKwargs == [ratio : Ratios]

PointKwargs == [ratio : Ratios, mu : Mus, sigma : Sigmas, count : Counts]

\* the [Generator, {Arguments}] pairs a pipeline is made of
Stages ==
    {[Anomaly |-> "NoisyAnomaly", kwargs |-> [mu |-> 0, sigma |-> 1]],
     [Anomaly |-> "PointAnomaly",
      kwargs |-> [ratio |-> Rat(1, 2), mu |-> 0, sigma |-> 0, count |-> 1]]}
    \cup {[Anomaly |-> k, kwargs |-> [ratio |-> q]] :
            k \in {"RangeShiftAnomaly", "AmplitudeShiftAnomaly", "FrequencyShiftAnomaly"},
            q \in {Rat(1, 2), Rat(3, 2)}}

Pipelines == UNION {[1..k -> Stages] : k \in 0..MaxStages}

----------------------------------------------------------------------------
(* The caller: holds a template T and a host series H, constructs one       *)
(* instance, then calls insert on it.                                       *)

NoInst == [kind |-> "None"]

Init ==
    /\ \E t \in Templates, h \in Hosts : heap = <<t, h>>
    /\ T = 1
    /\ H = 2
    /\ inst = NoInst
    /\ ret = 0
    /\ err = ""
    /\ rng \in 1..Len(Zs)
    /\ call = [op |-> "init"]
    /\ nins = 0

\* a = Anomaly(T, *args, **kwargs)
New(kind, args, kwargs) ==
    /\ call.op = "init"
    /\ LET made == BaseAnomaly_init(kind, heap[T], args, kwargs, rng)
       IN  /\ rng' = made.rng
           /\ err' = made.err
           /\ IF made.err = ""
              THEN /\ heap' = heap \o <<made.template, made.anomaly>>
                   /\ inst' = [kind |-> kind,
                               parameters |-> made.parameters,
                               template |-> Len(heap) + 1,
                               anomaly |-> Len(heap) + 2]
              ELSE /\ heap' = heap
                   /\ inst' = NoInst
    /\ call' = [op |-> "new", kind |-> kind, args |-> args, kwargs |-> kwargs]
    /\ UNCHANGED <<T, H, ret, nins>>

NewNoisyAnomaly == \E kw \in NoisyKwargs : New("NoisyAnomaly", << >>, kw)

NewRangeShiftAnomaly == \E kw \in RatioKwargs : New("RangeShiftAnomaly", << >>, kw)

NewAmplitudeShiftAnomaly == \E kw \in RatioKwargs : New("AmplitudeShiftAnomaly", << >>, kw)

NewPointAnomaly == \E kw \in PointKwargs : New("PointAnomaly", << >>, kw)

NewFrequencyShiftAnomaly == \E kw \in RatioKwargs : New("FrequencyShiftAnomaly", << >>, kw)

NewCompoundAnomaly == \E args \in Pipelines : New("CompoundAnomaly", args, << >>)

\* the objects an instance's fields refer to
Self(hp, a) == [template |-> hp[a.template], anomaly |-> hp[a.anomaly]]

\* the series the caller may pass as host: H, or what insert returned last
HostRefs == {H} \cup ({ret} \ {0})

\* the host object itself extended, and returned
insert_call_inplace(hp, a, timeseries, index) ==
    [heap |-> [hp EXCEPT ![timeseries] = insert(Self(hp, a), hp[timeseries], index)],
     ret |-> timeseries]

\* a.insert(timeseries, index) on the heap: the Series returned is a new
\* object; no object that exists is written
insert_call(hp, a, timeseries, index) ==
    [heap |-> Append(hp, insert(Self(hp, a), hp[timeseries], index)),
     ret |-> Len(hp) + 1]

\* ret = a.insert(timeseries, index)
Insert ==
    /\ inst.kind # "None"
    /\ nins < MaxInserts
    /\ \E timeseries \in HostRefs, index \in Indexes :
         LET done == insert_call(heap, inst, timeseries, index)
         IN  /\ heap' = done.heap
             /\ ret' = done.ret
             /\ call' = [op |-> "insert", timeseries |-> timeseries, index |-> index]
    /\ err' = ""
    /\ nins' = nins + 1
    /\ UNCHANGED <<T, H, inst, rng>>

Next ==
    \/ NewNoisyAnomaly
    \/ NewRangeShiftAnomaly
    \/ NewAmplitudeShiftAnomaly
    \/ NewPointAnomaly
    \/ NewFrequencyShiftAnomaly
    \/ NewCompoundAnomaly
    \/ Insert

Spec == Init /\ [][Next]_vars

\* construction alone
NextNew ==
    \/ NewNoisyAnomaly
    \/ NewRangeShiftAnomaly
    \/ NewAmplitudeShiftAnomaly
    \/ NewPointAnomaly
    \/ NewFrequencyShiftAnomaly
    \/ NewCompoundAnomaly

SpecNew == Init /\ [][NextNew]_vars

----------------------------------------------------------------------------
(* Properties *)

\* the last call constructed an instance of this kind, or tried to
Called(kind) == call.op = "new" /\ call.kind = kind

\* the caller's template, and the generated series of the instance
Template == heap[T]

Anomaly == heap[inst.anomaly]

ValuesOf(s) == {s.values[k] : k \in 1..Size(s)}

IsMaxOf(v, s) == v \in ValuesOf(s) /\ \A w \in ValuesOf(s) : Leq(w, v)

IsMinOf(v, s) == v \in ValuesOf(s) /\ \A w \in ValuesOf(s) : Leq(v, w)

\* stage after stage, each constructed on its own with the output of the one
\* before it as template
RECURSIVE FoldLeft(_, _, _)
FoldLeft(template, stages, r) ==
    IF stages = << >> THEN template
    ELSE LET one == BaseAnomaly_init(Head(stages).Anomaly, template, << >>,
                                     Head(stages).kwargs, r)
         IN  FoldLeft(one.anomaly, Tail(stages), one.rng)

\* C1: a CompoundAnomaly of k >= 1 stages that all succeed holds the left fold
\* of its stages over the template: each stage is constructed with the
\* previous stage's output as its template, the first with T.
C1_CompoundFoldsLeft ==
    [][(/\ call'.op = "new"
        /\ call'.kind = "CompoundAnomaly"
        /\ call'.args # << >>
        /\ err' = "")
       => /\ inst'.kind = "CompoundAnomaly"
          /\ heap'[inst'.anomaly] = FoldLeft(heap[T], call'.args, rng)]_vars

Swapped(args) == <<args[2], args[1]>>

\* FrequencyShift then AmplitudeShift succeeded on a template on which the
\* opposite order gives another series
C1_Witness ==
    /\ Called("CompoundAnomaly")
    /\ err = ""
    /\ Len(call.args) = 2
    /\ call.args[1].Anomaly = "FrequencyShiftAnomaly"
    /\ call.args[2].Anomaly = "AmplitudeShiftAnomaly"
    /\ call.args[1].kwargs.ratio = Rat(1, 2)
    /\ Anomaly.values # FoldLeft(Template, Swapped(call.args), rng).values

\* C2: a CompoundAnomaly with an empty stage list is constructed without
\* error and its anomaly has the length and the elements of T.
C2_EmptyPipelineIsIdentity ==
    (Called("CompoundAnomaly") /\ call.args = << >>)
    => /\ err = ""
       /\ inst.kind = "CompoundAnomaly"
       /\ Size(Anomaly) = Size(Template)
       /\ \A k \in 1..Size(Template) : Anomaly.values[k] = Template.values[k]

C2_Witness ==
    /\ Called("CompoundAnomaly")
    /\ call.args = << >>
    /\ err = ""
    /\ Size(Template) >= 2
    /\ Anomaly.values[1] # Anomaly.values[2]

\* the last call was insert; its host and what it returned
Inserted == call.op = "insert"

Host == heap[call.timeseries]

Result == heap[ret]

\* C3: insert with 0 <= index <= len(H) returns H[0:index], then the anomaly,
\* then H[index:]: of length len(H) + len(A), no host element lost; without
\* an index it returns H followed by A; the result is labelled 0, 1, 2, ...
C3_InsertSplices ==
    Inserted =>
        LET h == Host.values
            a == Anomaly.values
            res == Result.values
        IN  /\ (call.index = << >>) =>
                 /\ res = h \o a
                 /\ Result.index = [k \in 1..(Len(h) + Len(a)) |-> k - 1]
            /\ (call.index # << >> /\ call.index[1] >= 0 /\ call.index[1] <= Len(h)) =>
                 LET i == call.index[1]
                 IN  /\ Len(res) = Len(h) + Len(a)
                     /\ \A k \in 1..i : res[k] = h[k]
                     /\ \A k \in 1..Len(a) : res[i + k] = a[k]
                     /\ \A k \in (i + 1)..Len(h) : res[Len(a) + k] = h[k]
                     /\ Result.index = [k \in 1..(Len(h) + Len(a)) |-> k - 1]

\* an insertion strictly inside the host
C3_Witness ==
    /\ Inserted
    /\ call.index = <<1>>
    /\ Size(Host) = 2
    /\ Size(Anomaly) >= 1
    /\ Result.values[2] = Anomaly.values[1]

\* C4: insert with an index below 0 or above len(H) raises and returns no
\* series.
C4_InsertRejectsIndex ==
    (/\ Inserted
     /\ call.index # << >>
     /\ (call.index[1] < 0 \/ call.index[1] > Size(Host)))
    => err # ""

BadStage(stage) ==
    /\ stage.Anomaly = "FrequencyShiftAnomaly"
    /\ (stage.kwargs.ratio.n <= 0 \/ stage.kwargs.ratio.n > stage.kwargs.ratio.d)

\* C6: FrequencyShiftAnomaly with ratio <= 0 or ratio > 1 raises at
\* construction: no anomaly is produced and the caller gets no instance; a
\* CompoundAnomaly with such a stage fails as a whole in the same way.
C6_BadRatioFailsConstruction ==
    (/\ call.op = "new"
     /\ \/ BadStage([Anomaly |-> call.kind, kwargs |-> call.kwargs])
        \/ /\ call.kind = "CompoundAnomaly"
           /\ \E k \in 1..Len(call.args) : BadStage(call.args[k]))
    => /\ err = "NotImplementedError"
       /\ inst = NoInst
       /\ heap = <<Template, heap[H]>>

\* a pipeline whose first stage ran and whose second is rejected
C6_Witness ==
    /\ Called("CompoundAnomaly")
    /\ Len(call.args) = 2
    /\ call.args[1].Anomaly = "AmplitudeShiftAnomaly"
    /\ BadStage(call.args[2])
    /\ err # ""
    /\ Size(Template) >= 1

\* C7: on a non-empty template, PointAnomaly with mu = 0, sigma = 0 and
\* count = k >= 0 holds 2k points: max(T) + mid at every even position and
\* min(T) - mid at every odd one, mid = (max(T) - min(T)) * ratio.
C7_PointAlternates ==
    (/\ Called("PointAnomaly")
     /\ Size(Template) >= 1
     /\ call.kwargs.mu = 0
     /\ call.kwargs.sigma = 0
     /\ call.kwargs.count >= 0)
    => /\ err = ""
       /\ inst.kind = "PointAnomaly"
       /\ Size(Anomaly) = 2 * call.kwargs.count
       /\ \E max \in ValuesOf(Template), min \in ValuesOf(Template) :
            /\ IsMaxOf(max, Template)
            /\ IsMinOf(min, Template)
            /\ LET mid == Mul(Sub(max, min), call.kwargs.ratio)
               IN  \A k \in 1..Size(Anomaly) :
                     Anomaly.values[k] =
                       IF k % 2 = 1 THEN Add(max, mid) ELSE Sub(min, mid)

C7_Witness ==
    /\ Called("PointAnomaly")
    /\ call.kwargs.mu = 0
    /\ call.kwargs.sigma = 0
    /\ call.kwargs.count = 2
    /\ call.kwargs.ratio = Rat(1, 2)
    /\ err = ""
    /\ Size(Anomaly) = 4
    /\ Anomaly.values[1] = R(4)
    /\ Anomaly.values[2] = R(0)

\* C8: PointAnomaly with a negative count raises at construction.
C8_NegativeCountRejected ==
    (Called("PointAnomaly") /\ call.kwargs.count < 0) => err # ""

\* C9: on a non-empty template, AmplitudeShiftAnomaly has the length of T and
\* anomaly[i] - T[i] = (max(T) - min(T)) * ratio at every position i.
C9_AmplitudeShiftIsConstantOffset ==
    (Called("AmplitudeShiftAnomaly") /\ Size(Template) >= 1)
    => /\ err = ""
       /\ inst.kind = "AmplitudeShiftAnomaly"
       /\ Size(Anomaly) = Size(Template)
       /\ \E max \in ValuesOf(Template), min \in ValuesOf(Template) :
            /\ IsMaxOf(max, Template)
            /\ IsMinOf(min, Template)
            /\ \A k \in 1..Size(Template) :
                 Sub(Anomaly.values[k], Template.values[k])
                   = Mul(Sub(max, min), call.kwargs.ratio)

C9_Witness ==
    /\ Called("AmplitudeShiftAnomaly")
    /\ err = ""
    /\ call.kwargs.ratio = Rat(3, 2)
    /\ Size(Template) = 3
    /\ Template.values[1] # Template.values[2]
    /\ Anomaly.values[1] = Add(Template.values[1], R(3))

\* C10: once an instance is constructed nothing that exists is written: every
\* step leaves the instance, the caller's references and every Series object
\* (the host passed, the caller's template, the instance's template and
\* anomaly) as they are, draws no random sample, and returns a Series object
\* that did not exist before.
C10_ReadOnlyAfterConstruction ==
    [][inst.kind # "None"
       => /\ inst' = inst
          /\ T' = T
          /\ H' = H
          /\ rng' = rng
          /\ Len(heap') = Len(heap) + 1
          /\ \A x \in 1..Len(heap) : heap'[x] = heap[x]
          /\ ret' = Len(heap')
          /\ call'.op = "insert"]_vars

\* a second insert, into the series the first one returned
C10_Witness ==
    /\ Inserted
    /\ nins = 2
    /\ call.timeseries # H
    /\ call.index # << >>
    /\ Size(Anomaly) >= 1

====
